---- MODULE Spec2Model ----
(***************************************************************************)
(* Lost-and-found Flask applications: app.py (table reported_item, proof   *)
(* uploads, dashboard) and safety.py / search.py (table item, report and   *)
(* update-status routes).  All three open sqlite:///lost_and_found.db; the *)
(* two model classes map to two different tables of that file.             *)
(*                                                                         *)
(* Text is a TLA+ string, except file names, which are tuples of one-      *)
(* character strings so that allowed_file and secure_filename can be       *)
(* computed character by character.  A form is a function whose DOMAIN is  *)
(* the set of keys the request carries: request.form['k'] on a missing key *)
(* raises BadRequestKeyError, which Flask answers with 400.                *)
(***************************************************************************)
EXTENDS Integers, Sequences, FiniteSets, TLC

VARIABLES
    item,           \* safety.py / search.py: rows of table item, in id order
    hook_pending,   \* safety.py: create_sample_data registered and not yet run
    reported_item,  \* app.py: rows of table reported_item, in id order
    uploads,        \* app.py: names of the files saved under UPLOAD_FOLDER
    now,            \* wall clock, in ticks (TicksPerSecond ticks to a second)
    request,        \* the request handled last
    response,       \* the response to it
    session,        \* concurrent update requests: per worker, its position and ORM session
    trace           \* concurrent update requests: the table before them, the workers in commit order

vars == <<item, hook_pending, reported_item, uploads, now, request, response, session, trace>>

\* ---------------------------------------------------------------- bounds

MaxItems == 2
MaxReports == 2
MaxNow == 3
MaxConcItems == 2

\* ----------------------------------------------------------------- values

\* Python's None / SQL NULL; no form text equals it.
None == "None"

NoRequest == [app |-> "none"]
NoResponse == [code |-> 0]
NoTrace == [before |-> <<>>, committed |-> <<>>]

\* ------------------------------------------------- safety.py / search.py
\*
\* search.py declares the same Item model on the same table and its index, report
\* and update routes are those of safety.py line for line; it has no
\* create_sample_data.  The definitions below stand for the routes of both.

\* The Item constructor followed by the INSERT: id is the next rowid (no row is
\* ever deleted), status is not passed by report() and takes the column default.
Item(id, item_name, description, reported_by, contact_info, proof, address) ==
    [id |-> id, item_name |-> item_name, description |-> description,
     reported_by |-> reported_by, contact_info |-> contact_info,
     status |-> "Lost", proof |-> proof, address |-> address]

sample_item ==
    [id |-> 1, item_name |-> "Lost Wallet",
     description |-> "A black leather wallet with cash and cards.",
     reported_by |-> "Jane Smith", contact_info |-> "jane.smith@example.com",
     status |-> "Lost", proof |-> None, address |-> "Building B, Room 202"]

\* The keys report() reads from request.form, in the order it reads them.
ReportKeys == {"item_name", "description", "reported_by", "contact_info", "proof", "address"}

\* Forms a client may post to /report.
ReportForms ==
    LET full(n, p) == [item_name |-> n, description |-> "Black leather", reported_by |-> "Jane",
                       contact_info |-> "jane@example.com", proof |-> p, address |-> "B202"]
    IN  { full(n, p) : n \in {"", "Wallet"}, p \in {"", "photo.exe"} }
        \cup { full("Wallet", "") @@ [status |-> s] : s \in {"Lost", "Found"} }
        \cup { [description |-> "Black leather", reported_by |-> "Jane",
                contact_info |-> "jane@example.com", proof |-> "", address |-> "B202"] }

\* Forms a client may post to /update/<id>.
UpdateForms ==
    { [status |-> s] : s \in {"Lost", "Found", "Pending"} } \cup { <<>> }

Methods == {"GET", "POST"}

Redirect(endpoint) == [code |-> 302, location |-> endpoint]
Render(template, context) == [code |-> 200, template |-> template, context |-> context]
Abort(code) == [code |-> code]

\* @app.before_first_request create_sample_data: Flask runs it once, ahead of the
\* handler of the first request.
create_sample_data ==
    /\ hook_pending
    /\ hook_pending' = FALSE
    /\ item' = IF item = <<>> THEN <<sample_item>> ELSE item
    /\ UNCHANGED <<reported_item, uploads, now, request, response, session, trace>>

\* index(): Item.query.all()
index ==
    /\ ~hook_pending
    /\ request' = [app |-> "safety", route |-> "index", method |-> "GET"]
    /\ response' = Render("index.html", item)
    /\ UNCHANGED <<item, hook_pending, reported_item, uploads, now, session, trace>>

\* The rows of table item after report() handled a POST of form.
report_insert(tbl, form) ==
    Append(tbl, Item(Len(tbl) + 1, form["item_name"], form["description"], form["reported_by"],
                     form["contact_info"], form["proof"], form["address"]))

\* report()
report(method, form) ==
    /\ ~hook_pending
    /\ (method = "POST" /\ ReportKeys \subseteq DOMAIN form) => Len(item) < MaxItems
    /\ request' = [app |-> "safety", route |-> "report", method |-> method, form |-> form]
    /\ IF method = "POST"
       THEN IF ReportKeys \subseteq DOMAIN form
            THEN /\ item' = report_insert(item, form)
                 /\ response' = Redirect("index")
            ELSE /\ response' = Abort(400)
                 /\ UNCHANGED item
       ELSE /\ response' = Render("report.html", <<>>)
            /\ UNCHANGED item
    /\ UNCHANGED <<hook_pending, reported_item, uploads, now, session, trace>>

\* A lookup that falls back to the newest row instead of aborting.
get_or_last(tbl, item_id) ==
    IF item_id \in 1..Len(tbl) THEN tbl[item_id]
    ELSE IF tbl # <<>> THEN tbl[Len(tbl)] ELSE Abort(404)

\* Item.query.get_or_404(item_id): the row with that primary key, or the 404 the
\* handler aborts with.
get_or_404(tbl, item_id) ==
    IF item_id \in 1..Len(tbl) THEN tbl[item_id] ELSE Abort(404)

\* item.status = request.form['status'] on the loaded object.
assign_status(obj, status) == [obj EXCEPT !.status = status]

\* A commit that writes every column of the object back, changed or not.
commit_whole_row(tbl, loaded, obj) == [tbl EXCEPT ![loaded.id] = obj]

\* A commit whose UPDATE lacks its WHERE clause.
commit_all_rows(tbl, loaded, obj) ==
    [i \in DOMAIN tbl |-> [tbl[i] EXCEPT !.status = obj.status]]

\* A commit that treats "Found" as a terminal status.
commit_found_terminal(tbl, loaded, obj) ==
    IF obj.status # loaded.status /\ loaded.status # "Found"
    THEN [tbl EXCEPT ![loaded.id].status = obj.status]
    ELSE tbl

\* db.session.commit(): the unit of work flushes the attributes of the object whose
\* value differs from the loaded one (UPDATE item SET status=? WHERE id=?) and
\* trace; an attribute set to the value it was loaded with produces no UPDATE.
commit(tbl, loaded, obj) ==
    IF obj.status # loaded.status
    THEN [tbl EXCEPT ![loaded.id].status = obj.status]
    ELSE tbl

\* update(item_id)
update(item_id, method, form) ==
    /\ ~hook_pending
    /\ request' = [app |-> "safety", route |-> "update", method |-> method,
                   item_id |-> item_id, form |-> form]
    /\ LET obj == get_or_404(item, item_id)
       IN  IF obj = Abort(404)
           THEN /\ response' = obj
                /\ UNCHANGED item
           ELSE IF method = "POST"
                THEN IF "status" \in DOMAIN form
                     THEN /\ item' = commit(item, obj, assign_status(obj, form["status"]))
                          /\ response' = Redirect("index")
                     ELSE /\ response' = Abort(400)
                          /\ UNCHANGED item
                ELSE /\ response' = Render("update.html", obj)
                     /\ UNCHANGED item
    /\ UNCHANGED <<hook_pending, reported_item, uploads, now, session, trace>>

\* The database is empty.  create_sample_data is pending when safety.py is served
\* by a launcher that imports the module, so that the decorator after the
\* __main__ block is reached; it is not for search.py, nor for safety.py run as a
\* script, where app.run() serves before that line is executed.
Init ==
    /\ item = <<>>
    /\ hook_pending \in BOOLEAN
    /\ reported_item = <<>>
    /\ uploads = {}
    /\ now = 0
    /\ request = NoRequest
    /\ response = NoResponse
    /\ session = <<>>
    /\ trace = NoTrace

Next ==
    \/ create_sample_data
    \/ index
    \/ \E method \in Methods, form \in ReportForms : report(method, form)
    \/ \E item_id \in 0..(MaxItems + 1), method \in Methods, form \in UpdateForms :
           update(item_id, method, form)

Spec == Init /\ [][Next]_vars

\* ----------------------------------------------------------------- app.py

\* File names the client may give its upload.
photo_jpg == <<"p", "h", "o", "t", "o", ".", "j", "p", "g">>
photo_exe == <<"p", "h", "o", "t", "o", ".", "e", "x", "e">>
IMG_PNG == <<"I", "M", "G", ".", "P", "N", "G">>
traversal_gif == <<".", ".", "/", "m", "y", " ", "p", "i", "c", ".", "g", "i", "f">>
photo == <<"p", "h", "o", "t", "o">>
no_file == <<>>

ALLOWED_EXTENSIONS ==
    {<<"p", "n", "g">>, <<"j", "p", "g">>, <<"j", "p", "e", "g">>, <<"g", "i", "f">>}

UpperCase == <<"A", "B", "C", "D", "E", "F", "G", "H", "I", "J", "K", "L", "M",
               "N", "O", "P", "Q", "R", "S", "T", "U", "V", "W", "X", "Y", "Z">>
LowerCase == <<"a", "b", "c", "d", "e", "f", "g", "h", "i", "j", "k", "l", "m",
               "n", "o", "p", "q", "r", "s", "t", "u", "v", "w", "x", "y", "z">>
Digits == {"0", "1", "2", "3", "4", "5", "6", "7", "8", "9"}

Range(s) == {s[i] : i \in DOMAIN s}

\* str.lower() on the ASCII letters.
lower(s) ==
    [i \in DOMAIN s |->
        IF s[i] \in Range(UpperCase)
        THEN LowerCase[CHOOSE k \in DOMAIN UpperCase : UpperCase[k] = s[i]]
        ELSE s[i]]

\* filename.rsplit('.', 1)[1]: what follows the last dot (filename holds one).
rsplit_dot_1(filename) ==
    LET last == CHOOSE i \in DOMAIN filename :
                    /\ filename[i] = "."
                    /\ \A j \in DOMAIN filename : filename[j] = "." => j <= i
    IN  SubSeq(filename, last + 1, Len(filename))

\* An extension check that forgets the whitelist.
allowed_file_any_extension(filename) == "." \in Range(filename)

allowed_file(filename) ==
    "." \in Range(filename) /\ lower(rsplit_dot_1(filename)) \in ALLOWED_EXTENSIONS

\* "_".join(s.split()): runs of white space become one "_", none at either end.
RECURSIVE join_split(_, _)
join_split(s, at_start) ==
    IF s = <<>> THEN <<>>
    ELSE IF Head(s) = " "
         THEN LET rest == join_split(Tail(s), at_start)
              IN  IF at_start \/ Tail(s) = <<>> \/ Head(Tail(s)) = " " \/ rest = <<>>
                  THEN rest
                  ELSE <<"_">> \o rest
         ELSE <<Head(s)>> \o join_split(Tail(s), FALSE)

\* str.strip("._")
RECURSIVE strip_dots(_)
strip_dots(s) ==
    IF s = <<>> THEN s
    ELSE IF Head(s) \in {".", "_"} THEN strip_dots(Tail(s))
    ELSE IF s[Len(s)] \in {".", "_"} THEN strip_dots(SubSeq(s, 1, Len(s) - 1))
    ELSE s

\* werkzeug.utils.secure_filename on ASCII names (the NFKD step leaves them as they
\* are): path separators become spaces, white space becomes "_", every character
\* outside [A-Za-z0-9_.-] goes, and leading and trailing dots and underscores go.
secure_filename(filename) ==
    LET no_sep == [i \in DOMAIN filename |-> IF filename[i] = "/" THEN " " ELSE filename[i]]
        joined == join_split(no_sep, TRUE)
        safe == Range(UpperCase) \cup Range(LowerCase) \cup Digits \cup {"_", ".", "-"}
    IN  strip_dots(SelectSeq(joined, LAMBDA c : c \in safe))

TicksPerSecond == 2

\* datetime.now().strftime("%Y-%m-%d %H:%M:%S"): the clock cut to whole seconds.  The
\* fixed-width text orders as the number of seconds does.
strftime(t) == t \div TicksPerSecond

\* The ReportedItem constructor followed by the INSERT.
ReportedItem(id, item_name, description, status, address, date, proof) ==
    [id |-> id, item_name |-> item_name, description |-> description, status |-> status,
     reported_by |-> "Anonymous", address |-> address, date |-> date, proof |-> proof]

AppFormKeys == {"item_name", "description", "status", "address"}

\* Forms a client may post to app.py's /report.
AppForms ==
    LET full(s) == [item_name |-> "Wallet", description |-> "Black leather",
                    status |-> s, address |-> "B202"]
    IN  { full(s) : s \in {"Lost", "Found"} }
        \cup { [item_name |-> "Wallet", description |-> "Black leather", address |-> "B202"] }

\* request.files: the proof upload (a FileStorage with its filename), or none.
AppFiles ==
    { [proof |-> [filename |-> n]] :
          n \in {no_file, photo_jpg, photo_exe, IMG_PNG, traversal_gif, photo} }
    \cup { <<>> }

\* The wall clock advances.
Tick ==
    /\ now < MaxNow
    /\ now' = now + 1
    /\ UNCHANGED <<item, hook_pending, reported_item, uploads, request, response, session, trace>>

\* app.py report()
app_report(method, form, files) ==
    /\ request' = [app |-> "app", route |-> "report", method |-> method,
                   form |-> form, files |-> files]
    /\ IF method = "POST"
       THEN IF AppFormKeys \subseteq DOMAIN form /\ "proof" \in DOMAIN files
            THEN LET file == files["proof"] IN
                 IF file.filename # <<>> /\ allowed_file(file.filename)
                 THEN LET filename == secure_filename(file.filename) IN
                      /\ Len(reported_item) < MaxReports
                      /\ uploads' = uploads \cup {filename}
                      /\ reported_item' = Append(reported_item,
                             ReportedItem(Len(reported_item) + 1, form["item_name"],
                                          form["description"], form["status"],
                                          form["address"], strftime(now), filename))
                      /\ response' = Redirect("dashboard")
                 ELSE /\ response' = Render("report.html", <<>>)
                      /\ UNCHANGED <<reported_item, uploads>>
            ELSE /\ response' = Abort(400)
                 /\ UNCHANGED <<reported_item, uploads>>
       ELSE /\ response' = Render("report.html", <<>>)
            /\ UNCHANGED <<reported_item, uploads>>
    /\ UNCHANGED <<item, hook_pending, now, session, trace>>

RecentLimit == 5

Min(a, b) == IF a <= b THEN a ELSE b

\* ReportedItem.query.order_by(ReportedItem.date.desc()).limit(n).all(): the results
\* the query may give.  SQL leaves the order of rows with equal dates open.
order_by_date_desc_limit(tbl, n) ==
    LET N == Len(tbl)
        sorted == { p \in [1..N -> 1..N] :
                       /\ \A i, j \in 1..N : i # j => p[i] # p[j]
                       /\ \A i, j \in 1..N : i < j => tbl[p[i]].date >= tbl[p[j]].date }
    IN  { [k \in 1..Min(n, N) |-> tbl[p[k]]] : p \in sorted }

\* filter_by(status=...).count()
count_by_status(tbl, status) == Cardinality({i \in DOMAIN tbl : tbl[i].status = status})

\* app.py dashboard()
dashboard ==
    /\ request' = [app |-> "app", route |-> "dashboard", method |-> "GET"]
    /\ \E recent_activity \in order_by_date_desc_limit(reported_item, RecentLimit) :
           response' = Render("dashboard.html",
                              [total_lost |-> count_by_status(reported_item, "Lost"),
                               total_found |-> count_by_status(reported_item, "Found"),
                               recent_activity |-> recent_activity])
    /\ UNCHANGED <<item, hook_pending, reported_item, uploads, now, session, trace>>

InitApp ==
    /\ item = <<>>
    /\ hook_pending = FALSE
    /\ reported_item = <<>>
    /\ uploads = {}
    /\ now = 0
    /\ request = NoRequest
    /\ response = NoResponse
    /\ session = <<>>
    /\ trace = NoTrace

NextApp ==
    \/ Tick
    \/ dashboard
    \/ \E method \in Methods, form \in AppForms, files \in AppFiles :
           app_report(method, form, files)

SpecApp == InitApp /\ [][NextApp]_vars

\* ------------------------------------- update(item_id), request by request

\* Two requests served at once (the development server is threaded), each with
\* the scoped session of its own thread.
Workers == {1, 2}

NoRow == [id |-> 0]
Idle == [pc |-> "start", request |-> NoRequest, loaded |-> NoRow, obj |-> NoRow,
         response |-> NoResponse]

\* Tables the store may hold when the requests arrive: rows that report() made,
\* with statuses that earlier updates left.
ConcTables ==
    { [i \in 1..n |->
          [Item(i, "Wallet", "Black leather", "Jane", "jane@example.com", "photo.exe", "B202")
              EXCEPT !.status = st[i]]] :
      n \in 1..MaxConcItems, st \in [1..MaxConcItems -> {"Lost", "Found"}] }

\* item = Item.query.get_or_404(item_id), and the GET branch, which only renders.
conc_load(w, item_id, method, form) ==
    /\ session[w].pc = "start"
    /\ LET req == [app |-> "safety", route |-> "update", method |-> method,
                   item_id |-> item_id, form |-> form]
           obj == get_or_404(item, item_id)
       IN  session' = [session EXCEPT ![w] =
               IF obj = Abort(404)
               THEN [@ EXCEPT !.pc = "done", !.request = req, !.response = obj]
               ELSE IF method = "POST"
                    THEN [@ EXCEPT !.pc = "loaded", !.request = req, !.loaded = obj, !.obj = obj]
                    ELSE [@ EXCEPT !.pc = "done", !.request = req, !.loaded = obj, !.obj = obj,
                                   !.response = Render("update.html", obj)]]
    /\ UNCHANGED <<item, hook_pending, reported_item, uploads, now, request, response, trace>>

\* item.status = request.form['status']
conc_assign(w) ==
    /\ session[w].pc = "loaded"
    /\ LET form == session[w].request.form
       IN  session' = [session EXCEPT ![w] =
               IF "status" \in DOMAIN form
               THEN [@ EXCEPT !.pc = "assigned", !.obj = assign_status(@, form["status"])]
               ELSE [@ EXCEPT !.pc = "done", !.response = Abort(400)]]
    /\ UNCHANGED <<item, hook_pending, reported_item, uploads, now, request, response, trace>>

\* db.session.commit() and the redirect
conc_commit(w) ==
    /\ session[w].pc = "assigned"
    /\ item' = commit(item, session[w].loaded, session[w].obj)
    /\ trace' = [trace EXCEPT !.committed = Append(@, w)]
    /\ session' = [session EXCEPT ![w] = [@ EXCEPT !.pc = "done", !.response = Redirect("index")]]
    /\ UNCHANGED <<hook_pending, reported_item, uploads, now, request, response>>

InitConc ==
    /\ item \in ConcTables
    /\ hook_pending = FALSE
    /\ reported_item = <<>>
    /\ uploads = {}
    /\ now = 0
    /\ request = NoRequest
    /\ response = NoResponse
    /\ session = [w \in Workers |-> Idle]
    /\ trace = [before |-> item, committed |-> <<>>]

NextConc ==
    \/ \E w \in Workers, item_id \in 0..(MaxConcItems + 1), method \in Methods,
          form \in UpdateForms : conc_load(w, item_id, method, form)
    \/ \E w \in Workers : conc_assign(w)
    \/ \E w \in Workers : conc_commit(w)

SpecConc == InitConc /\ [][NextConc]_vars

\* ------------------------------------------------------------ properties

Statuses == {"Lost", "Found"}

ItemFields == {"id", "item_name", "description", "reported_by", "contact_info",
               "status", "proof", "address"}

IsRequest(app, route, method) ==
    /\ request.app = app
    /\ request.route = route
    /\ request.method = method

\* A submission the specification calls valid: the required texts are there and
\* non-empty, and a status, when given, is one of the two statuses.
ValidSubmission(form) ==
    /\ ReportKeys \subseteq DOMAIN form
    /\ form["item_name"] # ""
    /\ form["description"] # ""
    /\ "status" \in DOMAIN form => form["status"] \in Statuses

SubmittedStatus(form) == IF "status" \in DOMAIN form THEN form["status"] ELSE "Lost"

\* C1 (as claimed): after report() handled a valid submission, the newest row of
\* the store carries the status submitted with it, or "Lost" when none was.
C1_StatusAsSubmitted ==
    (IsRequest("safety", "report", "POST") /\ ValidSubmission(request.form))
        => /\ response.code = 302
           /\ item # <<>>
           /\ item[Len(item)].status = SubmittedStatus(request.form)

CountByStatus(tbl, status) == Cardinality({i \in DOMAIN tbl : tbl[i].status = status})

\* C2 (as claimed): every persisted status is "Lost" or "Found", so the two counts
\* add up to the number of rows.
C2_StatusIsLostOrFound ==
    /\ \A i \in DOMAIN item : item[i].status \in Statuses
    /\ CountByStatus(item, "Lost") + CountByStatus(item, "Found") = Len(item)

\* C3: a successful update of an existing item to "Found" leaves that row with
\* status "Found" and every other field as before, and every other row, the
\* other table and the stored files as before.
C3_UpdateFoundFrame ==
    [][\A item_id \in DOMAIN item :
          update(item_id, "POST", [status |-> "Found"])
              => /\ response'.code = 302
                 /\ DOMAIN item' = DOMAIN item
                 /\ item'[item_id].status = "Found"
                 /\ \A f \in ItemFields \ {"status"} : item'[item_id][f] = item[item_id][f]
                 /\ \A j \in DOMAIN item \ {item_id} : item'[j] = item[j]
                 /\ UNCHANGED <<reported_item, uploads>>]_vars

\* C3 witness: an update to "Found" succeeded on one of two rows, the other row
\* holding another status.
C3_Witness ==
    /\ IsRequest("safety", "update", "POST")
    /\ response.code = 302
    /\ request.form = [status |-> "Found"]
    /\ Len(item) >= 2
    /\ item[request.item_id].status = "Found"
    /\ \E j \in DOMAIN item : item[j].status = "Lost"

C5_EmptyNameRefused ==
    [][\A form \in ReportForms :
          ("item_name" \in DOMAIN form /\ form["item_name"] = "" /\ report("POST", form))
              => /\ response'.code = 400
                 /\ UNCHANGED item]_vars

\* C7 (as claimed): a row's proof, when not null, names a file saved to the file
\* store.
C7_ProofIsStoredUpload ==
    /\ \A i \in DOMAIN item : item[i].proof # None => item[i].proof \in uploads
    /\ \A i \in DOMAIN reported_item : reported_item[i].proof \in uploads

\* C9: whatever the status of an existing item, an update to "Lost" and an update
\* to "Found" are both possible and leave the item with the status asked for.
C9_NoTerminalStatus ==
    \A item_id \in DOMAIN item : \A s \in Statuses :
        ENABLED (/\ update(item_id, "POST", [status |-> s])
                 /\ response'.code = 302
                 /\ item'[item_id].status = s)

\* C9 witness: an update to "Lost" succeeded on one item while another item is
\* "Found", so both statuses are held by items whose updates the formula covers.
C9_Witness ==
    /\ IsRequest("safety", "update", "POST")
    /\ response.code = 302
    /\ request.form = [status |-> "Lost"]
    /\ item[request.item_id].status = "Lost"
    /\ \E j \in DOMAIN item : item[j].status = "Found"

\* Uploads whose name has no extension of the whitelist, whatever the case.
RejectedUploads == {photo_exe, photo}

MostRecentlyCreated(tbl, n) ==
    [k \in 1..Min(n, Len(tbl)) |-> tbl[Len(tbl) + 1 - k]]

\* C8 (as claimed): the dashboard shows the number of "Lost" rows, the number of
\* "Found" rows, and the min(5, N) most recently created rows, newest first,
\* rows of equal date included.
C8_DashboardSummary ==
    IsRequest("app", "dashboard", "GET")
        => /\ response.context.total_lost = CountByStatus(reported_item, "Lost")
           /\ response.context.total_found = CountByStatus(reported_item, "Found")
           /\ response.context.recent_activity = MostRecentlyCreated(reported_item, 5)

\* Both requests are done, and were POSTs of a status for the same existing id.
BothUpdatedSameItem ==
    /\ \A w \in Workers :
          /\ session[w].pc = "done"
          /\ session[w].request.method = "POST"
          /\ "status" \in DOMAIN session[w].request.form
    /\ session[1].request.item_id = session[2].request.item_id
    /\ session[1].request.item_id \in DOMAIN trace.before

\* Both requests were answered with the redirect, and nothing but the status of
\* the item they name differs from the table before them.
NoConflictAndFrame ==
    LET item_id == session[1].request.item_id IN
    /\ \A w \in Workers : session[w].response = Redirect("index")
    /\ DOMAIN item = DOMAIN trace.before
    /\ \A f \in ItemFields \ {"status"} : item[item_id][f] = trace.before[item_id][f]
    /\ \A j \in DOMAIN item \ {item_id} : item[j] = trace.before[j]

Last(s) == s[Len(s)]

\* C10 (as claimed): two interleaved updates of one item both succeed, the status
\* is the one the request that committed last assigned, and nothing else differs.
C10_LastCommitWins ==
    BothUpdatedSameItem
        => /\ NoConflictAndFrame
           /\ item[session[1].request.item_id].status
                 = session[Last(trace.committed)].obj.status

\* The workers, in commit order, whose commit wrote: those that assigned a status
\* other than the one they had loaded.
Writers == SelectSeq(trace.committed, LAMBDA w : session[w].obj.status # session[w].loaded.status)

\* C10 (amended): two interleaved updates of one item both succeed and nothing
\* else differs; the status is the one assigned by the last request to commit
\* among those that assigned a status other than the one they had loaded, and is
\* the status before the two requests when neither did.
C10_LastWriterWins ==
    BothUpdatedSameItem
        => /\ NoConflictAndFrame
           /\ item[session[1].request.item_id].status
                 = IF Writers = <<>>
                   THEN trace.before[session[1].request.item_id].status
                   ELSE session[Last(Writers)].obj.status

\* C10 witness: both requests loaded the item before either committed, the first
\* to commit changed the status and the second assigned the status it had loaded.
C10_Witness ==
    /\ BothUpdatedSameItem
    /\ Len(trace.committed) = 2
    /\ Len(Writers) = 1
    /\ Last(Writers) # Last(trace.committed)
    /\ Len(item) >= 2

====
